---- MODULE Spec2Model ----
(***************************************************************************)
(* A model of foyer/smarts_graph.py: the SMARTSGraph pattern graph built   *)
(* from a parsed SMARTS AST, the atom-expression evaluator, the per-       *)
(* topology preparation, and the lazy find_matches generator.              *)
(***************************************************************************)
EXTENDS Integers, Sequences, FiniteSets, TLC

\* ------------------------------------------------------------------ bounds
\* Largest number of AST nodes (atoms and branches) below the start node.
MaxNodes == 5
\* Largest number of operators wrapped around a leaf of a constraint expression.
MaxOps == 2
\* Largest number of atoms of the topology.
MaxAtoms == 3
\* Largest number of find_matches calls.
MaxCalls == 2
\* Largest number of changes the caller makes to the topology and its atoms.
MaxMut == 2

VARIABLES
    ast,        \* the parsed pattern: a sequence of nodes in document order
    built,      \* the result of SMARTSGraph.__init__, or the unbuilt marker
    expr,       \* the constraint expression handed to _atom_expr_matches
    eatom,      \* the molecule atom handed to _atom_expr_matches
    result,     \* what _atom_expr_matches returned or raised
    leafset,    \* which leaves the expressions are built from
    smarts,     \* the SMARTSGraph find_matches is called on, by its string
    ids,        \* the order of id(atom) among the pattern's nodes
    atoms,      \* topology.atoms(), in iteration order
    bonds,      \* topology.bonds()
    prepared,   \* the atoms that have the cycles/whitelist/blacklist attributes
    cycles,     \* atom.cycles
    whitelist,  \* atom.whitelist
    blacklist,  \* atom.blacklist
    gen,        \* the generator object the latest find_matches call returned
    yielded,    \* the atom indices pulled from it so far
    first_pull, \* the atoms the topology held at the first pull ever made
    ncalls,     \* the number of find_matches calls made
    nmut        \* the number of changes the caller made to the topology

bvars == <<ast, built>>
evars == <<expr, eatom, result, leafset>>
pvars == <<smarts, ids>>
tvars == <<atoms, bonds, prepared, cycles, whitelist, blacklist>>
gvars == <<gen, yielded, first_pull, ncalls>>
mvars == <<pvars, tvars, gvars, nmut>>
vars == <<bvars, evars, mvars>>

\* ------------------------------------------------------------ generic helpers
Range(s) == {s[i] : i \in 1..Len(s)}

Min(S) == CHOOSE x \in S : \A y \in S : x <= y

RECURSIVE SetToSeq(_)
\* The elements of a finite set of integers, ascending.
SetToSeq(S) == IF S = {} THEN << >> ELSE <<Min(S)>> \o SetToSeq(S \ {Min(S)})

\* ===========================================================================
\* The pattern AST (the parser's output, consumed by SMARTSGraph.__init__).
\* Node i of `ast` is [head, parent, label]: head is "atom" or "branch",
\* parent is the index of its parent (0 is the start node), and label is the
\* text of the atom's atom_label child as a sequence of digits (<< >> when the
\* atom has no atom_label child).  Nodes are numbered in document order, so a
\* node's children are the nodes naming it as parent, in ascending order.
\* ===========================================================================
Digits == {1, 2}

LabelTexts == {<< >>, <<1>>, <<2>>, <<1, 2>>, <<1, 1>>}

HeadOf(a, n) == IF n = 0 THEN "start" ELSE a[n].head

Kids(a, n) == SetToSeq({k \in 1..Len(a) : a[k].parent = n})

RECURSIVE OpenNodes(_, _)
\* The nodes that can still take a child when the parser appends the next
\* node in document order: the start node and the branches on the path from
\* the last node up to the start node.
OpenNodes(a, n) ==
    IF n = 0 THEN {0}
    ELSE (IF a[n].head = "branch" THEN {n} ELSE {}) \cup OpenNodes(a, a[n].parent)

\* ast.select('atom'): the atom nodes in document order.
SelectAtoms(a) == SetToSeq({n \in 1..Len(a) : a[n].head = "atom"})

\* ast.select('atom_label'): the atom_label nodes in document order, each
\* named by the atom it hangs under (label.parent()).
SelectLabels(a) == SetToSeq({n \in 1..Len(a) : a[n].head = "atom" /\ a[n].label # << >>})

\* --------------------------------------------------------------- _add_nodes
add_nodes(a) == SelectAtoms(a)

\* --------------------------------------------------------------- _add_edges
\* An edge is the set of its two end nodes; a self-loop is a singleton.
Edge(x, y) == {x, y}

\* Mutant: the atom before a branch is not remembered as the trunk.
RECURSIVE add_edges_keep_trunk(_, _, _, _, _)
add_edges_keep_trunk(a, n, i, trunk, edges) ==
    LET kids == Kids(a, n) IN
    IF i > Len(kids) THEN [err |-> FALSE, edges |-> edges]
    ELSE LET atom == kids[i] IN
         IF a[atom].head = "atom"
         THEN IF i = 1 /\ HeadOf(a, n) = "branch" /\ trunk = 0
              THEN [err |-> TRUE, edges |-> edges]
              ELSE LET e1 == IF i = 1 /\ HeadOf(a, n) = "branch"
                             THEN edges \cup {Edge(atom, trunk)} ELSE edges
                   IN IF i < Len(kids)
                      THEN IF a[kids[i + 1]].head = "atom"
                           THEN add_edges_keep_trunk(a, n, i + 1, trunk,
                                                     e1 \cup {Edge(atom, kids[i + 1])})
                           ELSE add_edges_keep_trunk(a, n, i + 1, trunk, e1)
                      ELSE [err |-> FALSE, edges |-> e1]
         ELSE LET r == add_edges_keep_trunk(a, atom, 1, trunk, edges) IN
              IF r.err THEN r ELSE add_edges_keep_trunk(a, n, i + 1, trunk, r.edges)

RECURSIVE add_edges(_, _, _, _, _)
\* The loop of _add_edges(ast_node = n, trunk) from its i-th child on, with
\* the graph's edges so far; trunk 0 is None.  err is the FoyerError.
add_edges(a, n, i, trunk, edges) ==
    LET kids == Kids(a, n) IN
    IF i > Len(kids) THEN [err |-> FALSE, edges |-> edges]
    ELSE LET atom == kids[i] IN
         IF a[atom].head = "atom"
         THEN IF i = 1 /\ HeadOf(a, n) = "branch" /\ trunk = 0
              THEN [err |-> TRUE, edges |-> edges]
              ELSE LET e1 == IF i = 1 /\ HeadOf(a, n) = "branch"
                             THEN edges \cup {Edge(atom, trunk)} ELSE edges
                   IN IF i < Len(kids)
                      THEN IF a[kids[i + 1]].head = "atom"
                           THEN add_edges(a, n, i + 1, trunk,
                                          e1 \cup {Edge(atom, kids[i + 1])})
                           ELSE add_edges(a, n, i + 1, atom, e1)
                      ELSE [err |-> FALSE, edges |-> e1]
         ELSE LET r == add_edges(a, atom, 1, trunk, edges) IN
              IF r.err THEN r ELSE add_edges(a, n, i + 1, trunk, r.edges)

\* --------------------------------------------------------- _add_label_edges
RECURSIVE DigitOccurrences(_, _)
\* Every (digit, atom) occurrence, in the order the two nested loops of
\* _add_label_edges append to label_digits.
DigitOccurrences(a, labels) ==
    IF labels = << >> THEN << >>
    ELSE LET atom == Head(labels) IN
         [j \in 1..Len(a[atom].label) |-> [digit |-> a[atom].label[j], atom |-> atom]]
             \o DigitOccurrences(a, Tail(labels))

\* label_digits[d]: the atoms appended under digit d, in order.
LabelDigits(occ, d) == SelectSeq(occ, LAMBDA o : o.digit = d)

RECURSIVE DigitOrder(_, _)
\* The keys of label_digits in insertion order (first occurrence).
DigitOrder(occ, seen) ==
    IF occ = << >> THEN << >>
    ELSE IF Head(occ).digit \in seen THEN DigitOrder(Tail(occ), seen)
         ELSE <<Head(occ).digit>> \o DigitOrder(Tail(occ), seen \cup {Head(occ).digit})

RECURSIVE ConnectLabels(_, _, _)
\* for label, (atom1, atom2) in label_digits.items(): add_edge(atom1, atom2);
\* unpacking a list that does not hold exactly two atoms is a ValueError.
ConnectLabels(occ, order, edges) ==
    IF order = << >> THEN [status |-> "ok", edges |-> edges]
    ELSE LET pair == LabelDigits(occ, Head(order)) IN
         IF Len(pair) # 2 THEN [status |-> "ValueError", edges |-> edges]
         ELSE ConnectLabels(occ, Tail(order),
                            edges \cup {Edge(pair[1].atom, pair[2].atom)})

add_label_edges(a, edges) ==
    LET labels == SelectLabels(a) IN
    IF labels = << >> THEN [status |-> "ok", edges |-> edges]
    ELSE LET occ == DigitOccurrences(a, labels) IN
         ConnectLabels(occ, DigitOrder(occ, {}), edges)

\* ----------------------------------------------------------------- __init__
Unbuilt == [status |-> "unbuilt", nodes |-> << >>, chain |-> {}, edges |-> {}]

\* SMARTSGraph.__init__ after parsing: _add_nodes, _add_edges(self.ast),
\* _add_label_edges.  status is "ok" or the exception that ended it; chain
\* holds the edges as _add_edges left them.
SMARTSGraphInit(a) ==
    LET nodes == add_nodes(a)
        r     == add_edges(a, 0, 1, 0, {})
    IN IF r.err
       THEN [status |-> "FoyerError", nodes |-> nodes, chain |-> r.edges, edges |-> r.edges]
       ELSE LET l == add_label_edges(a, r.edges) IN
            [status |-> l.status, nodes |-> nodes, chain |-> r.edges, edges |-> l.edges]

\* ===========================================================================
\* The atom constraint evaluator.
\* An expression node is [head, tail, num, sym]: tail holds the child nodes,
\* num the literal of a numeric leaf and sym the text of a symbol or label
\* leaf, as a sequence of characters.  A molecule atom is seen through
\* [atomic_number, name, bond_partners, prepared, cycles, whitelist]; cycles
\* and whitelist exist only on a prepared atom.  A cycle is the set of its
\* bonds, so its length is its cardinality.
\* The result is "True", "False", "None" (a function that fell off its end)
\* or the name of the exception raised.
\* ===========================================================================
Node(h, t, n, s) == [head |-> h, tail |-> t, num |-> n, sym |-> s]

Errors == {"TypeError", "NotImplementedError", "KeyError", "AttributeError"}

Truthy(r) == r = "True"

PyBool(b) == IF b THEN "True" ELSE "False"

\* parmed.periodic_table.AtomicNum, as far as the model's symbols go; 0 marks
\* a symbol that is not a key of the table.
AtomicNum(sym) ==
    IF sym = <<"C">> THEN 6 ELSE IF sym = <<"O">> THEN 8 ELSE IF sym = <<"H">> THEN 1 ELSE 0

\* _atom_id_matches(atom_id, atom)
atom_id_matches(atom_id, atom) ==
    IF atom_id.head = "atomic_num" THEN PyBool(atom.atomic_number = atom_id.num)
    ELSE IF atom_id.head = "atom_symbol" THEN
        IF atom_id.sym = <<"*">> THEN "True"
        ELSE IF Head(atom_id.sym) = "_" THEN PyBool(atom.name = atom_id.sym)
        ELSE IF AtomicNum(atom_id.sym) = 0 THEN "KeyError"
        ELSE PyBool(atom.atomic_number = AtomicNum(atom_id.sym))
    ELSE IF atom_id.head = "has_label" THEN
        IF ~atom.prepared THEN "AttributeError"
        ELSE PyBool(Tail(atom_id.sym) \in atom.whitelist)
    ELSE IF atom_id.head = "neighbor_count" THEN PyBool(atom.bond_partners = atom_id.num)
    ELSE IF atom_id.head = "ring_size" THEN
        IF ~atom.prepared THEN "AttributeError"
        ELSE PyBool(\E cycle \in atom.cycles : Cardinality(cycle) = atom_id.num)
    ELSE IF atom_id.head = "ring_count" THEN
        IF ~atom.prepared THEN "AttributeError"
        ELSE PyBool(Cardinality(atom.cycles) = atom_id.num)
    ELSE IF atom_id.head = "matches_string" THEN "NotImplementedError"
    ELSE "None"

\* Mutant: weak_and_expression is evaluated as a disjunction.
RECURSIVE atom_expr_matches_weak_or(_, _)
atom_expr_matches_weak_or(atom_expr, atom) ==
    IF atom_expr.head = "not_expression" THEN
        LET r == atom_expr_matches_weak_or(atom_expr.tail[1], atom) IN
        IF r \in Errors THEN r ELSE PyBool(~Truthy(r))
    ELSE IF atom_expr.head = "and_expression" THEN
        LET l == atom_expr_matches_weak_or(atom_expr.tail[1], atom) IN
        IF l \in Errors \/ ~Truthy(l) THEN l
        ELSE atom_expr_matches_weak_or(atom_expr.tail[2], atom)
    ELSE IF atom_expr.head \in {"or_expression", "weak_and_expression"} THEN
        LET l == atom_expr_matches_weak_or(atom_expr.tail[1], atom) IN
        IF l \in Errors \/ Truthy(l) THEN l
        ELSE atom_expr_matches_weak_or(atom_expr.tail[2], atom)
    ELSE IF atom_expr.head = "atom_id" THEN atom_id_matches(atom_expr.tail[1], atom)
    ELSE IF atom_expr.head = "atom_symbol" THEN atom_id_matches(atom_expr, atom)
    ELSE "TypeError"

RECURSIVE atom_expr_matches(_, _)
\* _atom_expr_matches(atom_expr, atom), with Python's `not`, `and` and `or`:
\* `x and y` is x when x is falsy and y otherwise, `x or y` is x when x is
\* truthy and y otherwise, and an exception ends the evaluation.
atom_expr_matches(atom_expr, atom) ==
    IF atom_expr.head = "not_expression" THEN
        LET r == atom_expr_matches(atom_expr.tail[1], atom) IN
        IF r \in Errors THEN r ELSE PyBool(~Truthy(r))
    ELSE IF atom_expr.head \in {"and_expression", "weak_and_expression"} THEN
        LET l == atom_expr_matches(atom_expr.tail[1], atom) IN
        IF l \in Errors \/ ~Truthy(l) THEN l
        ELSE atom_expr_matches(atom_expr.tail[2], atom)
    ELSE IF atom_expr.head = "or_expression" THEN
        LET l == atom_expr_matches(atom_expr.tail[1], atom) IN
        IF l \in Errors \/ Truthy(l) THEN l
        ELSE atom_expr_matches(atom_expr.tail[2], atom)
    ELSE IF atom_expr.head = "atom_id" THEN atom_id_matches(atom_expr.tail[1], atom)
    ELSE IF atom_expr.head = "atom_symbol" THEN atom_id_matches(atom_expr, atom)
    ELSE "TypeError"

\* ------------------------------------------------ expressions and atoms
AtomId(leaf) == Node("atom_id", <<leaf>>, 0, << >>)

Leaf(h, n, s) == Node(h, << >>, n, s)

LabelL == <<"L">>

\* Expressions of the supported kinds, as they stand in an atom's tail[0].
SupportedLeaves ==
    { AtomId(Leaf("atomic_num", 6, << >>)),
      Leaf("atom_symbol", 0, <<"O">>),
      AtomId(Leaf("has_label", 0, <<"%">> \o LabelL)),
      AtomId(Leaf("ring_size", 3, << >>)) }

MoreSupportedLeaves ==
    { Leaf("atom_symbol", 0, <<"*">>),
      AtomId(Leaf("atom_symbol", 0, <<"_", "A">>)),
      AtomId(Leaf("neighbor_count", 2, << >>)),
      AtomId(Leaf("ring_count", 1, << >>)) }

\* Expressions whose evaluation meets a fatal condition: the unsupported
\* matches_string, a symbol the periodic table does not know, a node of an
\* unexpected kind where an expression is expected, and one where a leaf is.
FatalLeaves ==
    { AtomId(Leaf("matches_string", 0, <<"x">>)),
      Leaf("atom_symbol", 0, <<"X", "x">>),
      Leaf("atom_label", 0, <<"1">>),
      AtomId(Leaf("atom_label", 0, <<"1">>)) }

LeavesOf(which) == IF which = "supported" THEN SupportedLeaves
                   ELSE SupportedLeaves \cup FatalLeaves

BinaryHeads == {"and_expression", "weak_and_expression", "or_expression"}

RECURSIVE Depth(_)
Depth(e) ==
    IF e.head = "not_expression" THEN 1 + Depth(e.tail[1])
    ELSE IF e.head \in BinaryHeads
         THEN 1 + (IF Depth(e.tail[1]) >= Depth(e.tail[2])
                   THEN Depth(e.tail[1]) ELSE Depth(e.tail[2]))
    ELSE 0

Triangle == {{0, 1}, {1, 2}, {0, 2}}

\* Molecule atoms as the evaluator sees them: a ring carbon holding label L,
\* a chain oxygen, and a custom-named particle that was never prepared.
EvalAtoms ==
    { [atomic_number |-> 6, name |-> <<"C">>, bond_partners |-> 2, prepared |-> TRUE,
       cycles |-> {Triangle}, whitelist |-> {LabelL}],
      [atomic_number |-> 8, name |-> <<"O">>, bond_partners |-> 1, prepared |-> TRUE,
       cycles |-> {}, whitelist |-> {}],
      [atomic_number |-> 0, name |-> <<"_", "A">>, bond_partners |-> 0, prepared |-> FALSE,
       cycles |-> {}, whitelist |-> {}] }

IdleExpr == Leaf("atom_symbol", 0, <<"*">>)

IdleAtom == CHOOSE a \in EvalAtoms : a.atomic_number = 8

\* ===========================================================================
\* The patterns the matcher is run with: the parser's AST for a SMARTS string
\* and, per atom node, the constraint expression in the atom's tail[0].
\* ===========================================================================
AtomNode(p, lab) == [head |-> "atom", parent |-> p, label |-> lab]

BranchNode(p) == [head |-> "branch", parent |-> p, label |-> << >>]

Carbon == AtomId(Leaf("atomic_num", 6, << >>))

Oxygen == AtomId(Leaf("atomic_num", 8, << >>))

AnyAtom == Leaf("atom_symbol", 0, <<"*">>)

HasL == AtomId(Leaf("has_label", 0, <<"%">> \o LabelL))

InRing3 == AtomId(Leaf("ring_size", 3, << >>))

PatternNames ==
    {"[#6]", "[#6][#8]", "[#6][*]", "[#6][*][*]", "[#6]1[*][*]1", "[#6;R3]", "[#8,%L]", "[*]([%L])[*]"}

\* SMARTS().parse(smarts_string) for the strings above.
Parse(name) ==
    CASE name = "[#6]" ->
           [ast |-> <<AtomNode(0, << >>)>>, expr |-> <<Carbon>>]
      [] name = "[#6][#8]" ->
           [ast |-> <<AtomNode(0, << >>), AtomNode(0, << >>)>>, expr |-> <<Carbon, Oxygen>>]
      [] name = "[#6][*]" ->
           [ast |-> <<AtomNode(0, << >>), AtomNode(0, << >>)>>, expr |-> <<Carbon, AnyAtom>>]
      [] name = "[#6][*][*]" ->
           [ast |-> <<AtomNode(0, << >>), AtomNode(0, << >>), AtomNode(0, << >>)>>,
            expr |-> <<Carbon, AnyAtom, AnyAtom>>]
      [] name = "[#6]1[*][*]1" ->
           [ast |-> <<AtomNode(0, <<1>>), AtomNode(0, << >>), AtomNode(0, <<1>>)>>,
            expr |-> <<Carbon, AnyAtom, AnyAtom>>]
      [] name = "[#6;R3]" ->
           [ast |-> <<AtomNode(0, << >>)>>,
            expr |-> <<Node("weak_and_expression", <<Carbon, InRing3>>, 0, << >>)>>]
      [] name = "[#8,%L]" ->
           [ast |-> <<AtomNode(0, << >>)>>,
            expr |-> <<Node("or_expression", <<Oxygen, HasL>>, 0, << >>)>>]
      [] name = "[*]([%L])[*]" ->
           [ast |-> <<AtomNode(0, << >>), BranchNode(0), AtomNode(2, << >>),
                      BranchNode(0), AtomNode(4, << >>)>>,
            expr |-> <<AnyAtom, AnyAtom, HasL, AnyAtom, AnyAtom>>]

\* SMARTSGraph(smarts_string): the graph with each node's 'atom' attribute.
SMARTSGraph(name) ==
    LET src == Parse(name) IN [graph |-> SMARTSGraphInit(src.ast), expr |-> src.expr]

PatternTable == [name \in PatternNames |-> SMARTSGraph(name)]

PatNodes(name) == Range(PatternTable[name].graph.nodes)

PatEdges(name) == PatternTable[name].graph.edges

\* first_atom = next(self.nodes_iter())
first_atom(name) == PatternTable[name].graph.nodes[1]

\* Mutant: the last inserted node is taken for the root.
last_atom(name) ==
    PatternTable[name].graph.nodes[Len(PatternTable[name].graph.nodes)]

Neighbors(edges, n) == {k \in UNION edges : Edge(n, k) \in edges}

\* ===========================================================================
\* The topology: atoms() in iteration order (an atom is named by its index),
\* bonds() as a set of edges, and per atom the attributes _prepare_atoms
\* sets: `prepared` holds the atoms that carry them.
\* ===========================================================================
AtomIds == 0..(MaxAtoms - 1)

AllBonds == {Edge(a, b) : a, b \in AtomIds} \ {{a} : a \in AtomIds}

\* atom.element.atomic_number and atom.element.name: atom 1 is an oxygen,
\* every other atom a carbon.
AtomicNumberOf(a) == IF a = 1 THEN 8 ELSE 6

ElementNameOf(a) == IF a = 1 THEN <<"O">> ELSE <<"C">>

NoDerived == [a \in AtomIds |-> {}]

\* ------------------------------------------------------------ nx.cycle_basis
RECURSIVE Reach(_, _)
\* The nodes joined to a node of S by a path of `edges`.
Reach(edges, S) ==
    LET T == S \cup UNION {e \in edges : e \cap S # {}} IN
    IF T = S THEN S ELSE Reach(edges, T)

RECURSIVE NumComponents(_, _)
NumComponents(nodes, edges) ==
    IF nodes = {} THEN 0
    ELSE 1 + NumComponents(nodes \ Reach(edges, {Min(nodes)}), edges)

\* The simple cycles of the graph, each as the set of its edges.
SimpleCycles(edges) ==
    {c \in SUBSET edges :
        /\ c # {}
        /\ \A v \in UNION c : Cardinality({e \in c : v \in e}) = 2
        /\ Reach(c, {Min(UNION c)}) = UNION c}

\* The edges that lie on an odd number of the cycles of S.
OddEdges(S) == {e \in UNION S : Cardinality({c \in S : e \in c}) % 2 = 1}

\* nx.cycle_basis(g): which basis it returns depends on the iteration order
\* of sets of atom objects, so every basis of simple cycles is possible.
CycleBases(nodes, edges) ==
    {B \in SUBSET SimpleCycles(edges) :
        /\ Cardinality(B) = Cardinality(edges) + NumComponents(nodes, edges) - Cardinality(nodes)
        /\ \A S \in (SUBSET B) \ {{}} : OddEdges(S) # {}}

\* ----------------------------------------------------------- _prepare_atoms
\* The derived state of a topology t = [atoms, bonds, prepared, cycles,
\* whitelist, blacklist].
DerivedOf(t) == [prepared |-> t.prepared, cycles |-> t.cycles,
                 whitelist |-> t.whitelist, blacklist |-> t.blacklist]

Prepared(t, cycle_basis) ==
    [prepared  |-> t.prepared \cup Range(t.atoms),
     cycles    |-> [a \in AtomIds |-> IF a \in Range(t.atoms)
                                      THEN {c \in cycle_basis : a \in UNION c}
                                      ELSE t.cycles[a]],
     whitelist |-> [a \in AtomIds |-> IF a \in Range(t.atoms) THEN {} ELSE t.whitelist[a]],
     blacklist |-> [a \in AtomIds |-> IF a \in Range(t.atoms) THEN {} ELSE t.blacklist[a]]]

\* Mutant: only the atoms that lie on a cycle get the attributes.
prepare_atoms_ring_only(t) ==
    IF t.atoms[1] \notin t.prepared
    THEN {[Prepared(t, B) EXCEPT !.prepared = t.prepared \cup UNION (UNION B)] :
              B \in CycleBases(Range(t.atoms), t.bonds)}
    ELSE {DerivedOf(t)}

\* _prepare_atoms(topology) for a topology with at least one atom: the
\* derived states it can leave behind.
prepare_atoms(t) ==
    IF t.atoms[1] \notin t.prepared
    THEN {Prepared(t, B) : B \in CycleBases(Range(t.atoms), t.bonds)}
    ELSE {DerivedOf(t)}

\* ===========================================================================
\* The subgraph isomorphism search behind gm.subgraph_isomorphisms_iter():
\* networkx's VF2 matcher of the molecule graph G1 = g against the pattern
\* graph G2 = self.  The search state is `core`, the sequence of pairs
\* [p, a] (pattern node p mapped to molecule node a) in the order they were
\* added.  env holds what the search reads: the graph g built by the call
\* (gnodes, gedges), the pattern (pat) with the order of its nodes' id()
\* (ids), and the atoms' current state.
\* ===========================================================================
CoreP(core) == {core[i].p : i \in 1..Len(core)}

CoreA(core) == {core[i].a : i \in 1..Len(core)}

MapsTo(core, p) == core[CHOOSE i \in 1..Len(core) : core[i].p = p].a

PreimageOf(core, a) == core[CHOOSE i \in 1..Len(core) : core[i].a = a].p

\* inout_1 and inout_2: the mapped nodes and their neighbours.
InOut1(env, core) == CoreA(core) \cup UNION {Neighbors(env.gedges, a) : a \in CoreA(core)}

InOut2(env, core) == CoreP(core) \cup UNION {Neighbors(PatEdges(env.pat), p) : p \in CoreP(core)}

MinById(env, S) == CHOOSE p \in S : \A q \in S : env.ids[p] <= env.ids[q]

\* candidate_pairs_iter(): the pattern node to map next ...
CandidateP(env, core) ==
    LET T1 == InOut1(env, core) \ CoreA(core)
        T2 == InOut2(env, core) \ CoreP(core)
    IN IF T1 # {} /\ T2 # {} THEN MinById(env, T2)
       ELSE MinById(env, PatNodes(env.pat) \ CoreP(core))

\* ... and the molecule nodes tried for it, in order.
CandidatesA(env, core) ==
    LET T1 == InOut1(env, core) \ CoreA(core)
        T2 == InOut2(env, core) \ CoreP(core)
    IN IF T1 # {} /\ T2 # {} THEN SetToSeq(T1)
       ELSE SetToSeq(env.gnodes \ CoreA(core))

\* The candidates that follow molecule node a in the loop over core's candidates.
CandidatesAfter(env, core, a) ==
    SelectSeq(CandidatesA(env, core), LAMBDA b : b > a)

\* Mutant: an edge between two mapped molecule atoms need not be in the pattern.
syntactic_feasibility_mono(env, core, a, p) ==
    LET E1 == env.gedges
        E2 == PatEdges(env.pat)
        io1 == InOut1(env, core)
        io2 == InOut2(env, core)
    IN /\ (Edge(a, a) \in E1) <=> (Edge(p, p) \in E2)
       /\ \A q \in Neighbors(E2, p) \cap CoreP(core) : MapsTo(core, q) \in Neighbors(E1, a)
       /\ Cardinality((Neighbors(E1, a) \cap io1) \ CoreA(core))
              >= Cardinality((Neighbors(E2, p) \cap io2) \ CoreP(core))
       /\ Cardinality(Neighbors(E1, a) \ io1) >= Cardinality(Neighbors(E2, p) \ io2)

\* syntactic_feasibility(G1_node = a, G2_node = p) of the subgraph test: equal
\* self-loops, adjacency to the mapped nodes preserved both ways, and the two
\* look-ahead counts.
syntactic_feasibility(env, core, a, p) ==
    LET E1 == env.gedges
        E2 == PatEdges(env.pat)
        io1 == InOut1(env, core)
        io2 == InOut2(env, core)
    IN /\ (Edge(a, a) \in E1) <=> (Edge(p, p) \in E2)
       /\ \A b \in Neighbors(E1, a) \cap CoreA(core) : PreimageOf(core, b) \in Neighbors(E2, p)
       /\ \A q \in Neighbors(E2, p) \cap CoreP(core) : MapsTo(core, q) \in Neighbors(E1, a)
       /\ Cardinality((Neighbors(E1, a) \cap io1) \ CoreA(core))
              >= Cardinality((Neighbors(E2, p) \cap io2) \ CoreP(core))
       /\ Cardinality(Neighbors(E1, a) \ io1) >= Cardinality(Neighbors(E2, p) \ io2)

\* host['atom'] as the evaluator reads it now: the atom object, not a copy.
AtomView(env, a) ==
    [atomic_number |-> AtomicNumberOf(a),
     name          |-> ElementNameOf(a),
     bond_partners |-> Cardinality(Neighbors(env.bonds, a)),
     prepared      |-> a \in env.prepared,
     cycles        |-> env.cycles[a],
     whitelist     |-> env.whitelist[a]]

\* Mutant: has_label reads the whitelist as it was when the call built g.
node_match_snapshot(env, a, p) ==
    atom_expr_matches(PatternTable[env.pat].expr[p],
                      [AtomView(env, a) EXCEPT !.whitelist = env.whitelist0[a]])

\* _node_match(host, pattern)
node_match(env, a, p) ==
    atom_expr_matches(PatternTable[env.pat].expr[p], AtomView(env, a))

\* The mapping of the frame above the one that added core's last pair.
Outer(core) == SubSeq(core, 1, Len(core) - 1)

Ended(kind, core) == [kind |-> kind, core |-> core]

RECURSIVE Match(_, _, _), Try(_, _, _, _), Judge(_, _, _, _, _), Descend(_, _)
\* match(): the loop over the candidates `cands` of the frame whose mapping is
\* `core`, run until the next complete mapping, the end of the search or an
\* exception of the node predicate.  When the candidates of a frame are used
\* up, the frame above restores its state and goes on with its own.
Match(env, core, cands) ==
    IF cands = << >>
    THEN IF core = << >> THEN Ended("exhausted", << >>)
         ELSE Match(env, Outer(core), CandidatesAfter(env, Outer(core), core[Len(core)].a))
    ELSE Try(env, core, cands, CandidateP(env, core))

\* if self.syntactic_feasibility(G1_node, G2_node):
\*     if self.semantic_feasibility(G1_node, G2_node): ...
Try(env, core, cands, p) ==
    IF ~syntactic_feasibility(env, core, Head(cands), p) THEN Match(env, core, Tail(cands))
    ELSE Judge(env, core, cands, p, node_match(env, Head(cands), p))

\* r is what the node predicate returned or raised for the pair.
Judge(env, core, cands, p, r) ==
    IF r \in Errors THEN Ended(r, core)
    ELSE IF ~Truthy(r) THEN Match(env, core, Tail(cands))
    ELSE Descend(env, Append(core, [p |-> p, a |-> Head(cands)]))

\* The recursive match() with the pair added: a complete mapping is yielded.
Descend(env, inner) ==
    IF Len(inner) = Cardinality(PatNodes(env.pat)) THEN Ended("mapping", inner)
    ELSE Match(env, inner, CandidatesA(env, inner))

\* The search from its start, and resumed after the mapping `core` it gave last.
FirstMapping(env) == Match(env, << >>, CandidatesA(env, << >>))

NextMapping(env, core) ==
    Match(env, Outer(core), CandidatesAfter(env, Outer(core), core[Len(core)].a))

\* ===========================================================================
\* find_matches(topology): a generator function.  The call only creates the
\* generator; its body runs when the caller pulls from it.
\* ===========================================================================
NoGen == [state |-> "none", top |-> "None", gnodes |-> {}, gedges |-> {}, core |-> << >>,
          matched_atoms |-> {}, mappings |-> {}, whitelist0 |-> NoDerived, dirty |-> FALSE]

Env(g, name, idorder, bs, d) ==
    [gnodes |-> g.gnodes, gedges |-> g.gedges, whitelist0 |-> g.whitelist0,
     pat |-> name, ids |-> idorder, bonds |-> bs,
     prepared |-> d.prepared, cycles |-> d.cycles, whitelist |-> d.whitelist]

\* mapping = {node_id: atom_id ...} as a function of the pattern's nodes.
MappingOf(name, core) == [p \in PatNodes(name) |-> MapsTo(core, p)]

\* Mutant: the index of the atom mapped to the last node is reported.
RootIndexLast(name, core) == MapsTo(core, last_atom(name))

\* atom_index = mapping[first_atom]
RootIndex(name, core) == MapsTo(core, first_atom(name))

\* Mutant: no index counts as matched already.
NeverMatched(atom_index, matched_atoms) == FALSE

\* not (atom_index not in matched_atoms)
AlreadyMatched(atom_index, matched_atoms) == atom_index \in matched_atoms

Stopped(r, matched_atoms, mappings) ==
    [kind |-> r.kind, core |-> r.core, matched_atoms |-> matched_atoms,
     mappings |-> mappings, atom_index |-> 0]

Yield(r, atom_index, matched_atoms, mappings) ==
    [kind |-> "yield", core |-> r.core, matched_atoms |-> matched_atoms \cup {atom_index},
     mappings |-> mappings, atom_index |-> atom_index]

RECURSIVE find_matches_loop(_, _, _, _, _), LoopBody(_, _, _, _), Deduplicate(_, _, _, _, _)
\* The for loop of find_matches from the search position `core` (start says
\* the search has not begun) up to its next yield, its end or an exception.
find_matches_loop(env, start, core, matched_atoms, mappings) ==
    LoopBody(env, IF start THEN FirstMapping(env) ELSE NextMapping(env, core),
             matched_atoms, mappings)

\* r is what gm.subgraph_isomorphisms_iter() gave next.
LoopBody(env, r, matched_atoms, mappings) ==
    IF r.kind # "mapping" THEN Stopped(r, matched_atoms, mappings)
    ELSE Deduplicate(env, r, RootIndex(env.pat, r.core), matched_atoms,
                     mappings \cup {MappingOf(env.pat, r.core)})

\* if atom_index not in matched_atoms: matched_atoms.add(atom_index); yield
Deduplicate(env, r, atom_index, matched_atoms, mappings) ==
    IF AlreadyMatched(atom_index, matched_atoms)
    THEN find_matches_loop(env, FALSE, r.core, matched_atoms, mappings)
    ELSE Yield(r, atom_index, matched_atoms, mappings)

Topology == [atoms |-> atoms, bonds |-> bonds, prepared |-> prepared, cycles |-> cycles,
             whitelist |-> whitelist, blacklist |-> blacklist]

\* The generator after a run of the loop that ended as r says.
Resumed(g, r) ==
    [g EXCEPT !.state = IF r.kind = "yield" THEN "suspended"
                        ELSE IF r.kind = "exhausted" THEN "done" ELSE "error",
              !.core = r.core, !.matched_atoms = r.matched_atoms, !.mappings = r.mappings]

\* ===========================================================================
\* Specification SpecBuild: the parser produces an AST node by node, then the
\* SMARTSGraph constructor runs on it.
\* ===========================================================================
EvalIdle ==
    /\ expr = IdleExpr
    /\ eatom = IdleAtom
    /\ result = "unevaluated"
    /\ leafset = "none"

MatchIdle ==
    /\ smarts = "[#6]"
    /\ ids = [p \in {1} |-> 1]
    /\ atoms = << >>
    /\ bonds = {}
    /\ prepared = {}
    /\ cycles = NoDerived
    /\ whitelist = NoDerived
    /\ blacklist = NoDerived
    /\ gen = NoGen
    /\ yielded = << >>
    /\ first_pull = {}
    /\ ncalls = 0
    /\ nmut = 0

InitBuild ==
    /\ ast = << >>
    /\ built = Unbuilt
    /\ EvalIdle
    /\ MatchIdle

ParseAtom ==
    /\ built.status = "unbuilt"
    /\ Len(ast) < MaxNodes
    /\ \E p \in OpenNodes(ast, Len(ast)), lab \in LabelTexts :
           ast' = Append(ast, [head |-> "atom", parent |-> p, label |-> lab])
    /\ UNCHANGED <<built, evars, mvars>>

ParseBranch ==
    /\ built.status = "unbuilt"
    /\ Len(ast) < MaxNodes
    /\ \E p \in OpenNodes(ast, Len(ast)) :
           ast' = Append(ast, [head |-> "branch", parent |-> p, label |-> << >>])
    /\ UNCHANGED <<built, evars, mvars>>

Construct ==
    /\ built.status = "unbuilt"
    /\ built' = SMARTSGraphInit(ast)
    /\ UNCHANGED <<ast, evars, mvars>>

NextBuild == ParseAtom \/ ParseBranch \/ Construct

SpecBuild == InitBuild /\ [][NextBuild]_vars

\* ===========================================================================
\* Specifications SpecEval and SpecEvalFatal: an expression is put together
\* around a leaf and then evaluated against one molecule atom.  SpecEval
\* builds from the supported leaves, SpecEvalFatal also from the fatal ones.
\* ===========================================================================
BuildIdle ==
    /\ ast = << >>
    /\ built = Unbuilt

InitEvalWith(which) ==
    /\ leafset = which
    /\ expr \in LeavesOf(which) \cup MoreSupportedLeaves
    /\ eatom \in EvalAtoms
    /\ result = "unevaluated"
    /\ BuildIdle
    /\ MatchIdle

WrapNot ==
    /\ result = "unevaluated"
    /\ Depth(expr) < MaxOps
    /\ expr' = Node("not_expression", <<expr>>, 0, << >>)
    /\ UNCHANGED <<eatom, result, leafset, bvars, mvars>>

WrapLeft ==
    /\ result = "unevaluated"
    /\ Depth(expr) < MaxOps
    /\ \E h \in BinaryHeads, leaf \in LeavesOf(leafset) :
           expr' = Node(h, <<expr, leaf>>, 0, << >>)
    /\ UNCHANGED <<eatom, result, leafset, bvars, mvars>>

WrapRight ==
    /\ result = "unevaluated"
    /\ Depth(expr) < MaxOps
    /\ \E h \in BinaryHeads, leaf \in LeavesOf(leafset) :
           expr' = Node(h, <<leaf, expr>>, 0, << >>)
    /\ UNCHANGED <<eatom, result, leafset, bvars, mvars>>

Evaluate ==
    /\ result = "unevaluated"
    /\ result' = atom_expr_matches(expr, eatom)
    /\ UNCHANGED <<expr, eatom, leafset, bvars, mvars>>

NextEval == WrapNot \/ WrapLeft \/ WrapRight \/ Evaluate

InitEval == InitEvalWith("supported")

InitEvalFatal == InitEvalWith("all")

SpecEval == InitEval /\ [][NextEval]_vars

SpecEvalFatal == InitEvalFatal /\ [][NextEval]_vars

\* ===========================================================================
\* Specification Spec: one pattern and one topology; the caller calls
\* find_matches, pulls from the generator, and between pulls changes the
\* topology and the atoms' lists.
\* ===========================================================================
\* The orders id() can put the pattern's atom nodes in.
IdOrders(S) ==
    {f \in [S -> 1..Cardinality(S)] : \A i, j \in S : i # j => f[i] # f[j]}

Init ==
    /\ smarts \in PatternNames
    /\ ids \in IdOrders(PatNodes(smarts))
    /\ \E n \in 0..MaxAtoms :
           /\ atoms = [i \in 1..n |-> i - 1]
           /\ bonds \in SUBSET {e \in AllBonds : e \subseteq 0..(n - 1)}
    /\ prepared = {}
    /\ cycles = NoDerived
    /\ whitelist = NoDerived
    /\ blacklist = NoDerived
    /\ gen = NoGen
    /\ yielded = << >>
    /\ first_pull = {}
    /\ ncalls = 0
    /\ nmut = 0
    /\ BuildIdle
    /\ EvalIdle

\* gen = smarts.find_matches(topology): nothing of the body runs yet.
Call ==
    /\ ncalls < MaxCalls
    /\ \E top \in {"None", "topology"} : gen' = [NoGen EXCEPT !.state = "created", !.top = top]
    /\ yielded' = << >>
    /\ ncalls' = ncalls + 1
    /\ UNCHANGED <<pvars, tvars, first_pull, nmut, bvars, evars>>

\* The first next(gen) on a None topology: `return False` ends the generator.
PullNone ==
    /\ gen.state = "created"
    /\ gen.top = "None"
    /\ gen' = [gen EXCEPT !.state = "done"]
    /\ UNCHANGED <<pvars, tvars, yielded, first_pull, ncalls, nmut, bvars, evars>>

\* The first next(gen) on a topology without atoms: next(topology.atoms())
\* raises StopIteration inside the generator, which ends it silently or, from
\* Python 3.7 on, as a RuntimeError.
PullEmpty ==
    /\ gen.state = "created"
    /\ gen.top = "topology"
    /\ atoms = << >>
    /\ \E st \in {"done", "error"} : gen' = [gen EXCEPT !.state = st]
    /\ UNCHANGED <<pvars, tvars, yielded, first_pull, ncalls, nmut, bvars, evars>>

\* The generator as the body's first lines leave it: g built from the atoms
\* and bonds of the topology as they are now.
Begun(d) == [gen EXCEPT !.gnodes = Range(atoms), !.gedges = bonds, !.whitelist0 = d.whitelist]

\* A run of the loop on generator g ended as r says.
Ran(g, r) ==
    /\ gen' = Resumed(g, r)
    /\ yielded' = IF r.kind = "yield" THEN Append(yielded, r.atom_index) ELSE yielded

\* The first next(gen): _prepare_atoms, the graph g, the matcher, and the
\* loop up to its first yield.
PullFirst ==
    /\ gen.state = "created"
    /\ gen.top = "topology"
    /\ atoms # << >>
    /\ \E d \in prepare_atoms(Topology) :
           /\ prepared' = d.prepared
           /\ cycles' = d.cycles
           /\ whitelist' = d.whitelist
           /\ blacklist' = d.blacklist
           /\ Ran(Begun(d), find_matches_loop(Env(Begun(d), smarts, ids, bonds, d),
                                              TRUE, << >>, {}, {}))
    /\ first_pull' = IF first_pull = {} THEN Range(atoms) ELSE first_pull
    /\ UNCHANGED <<pvars, atoms, bonds, ncalls, nmut, bvars, evars>>

\* A later next(gen): the loop goes on from where it yielded.
PullNext ==
    /\ gen.state = "suspended"
    /\ Ran(gen, find_matches_loop(Env(gen, smarts, ids, bonds, DerivedOf(Topology)),
                                  FALSE, gen.core, gen.matched_atoms, gen.mappings))
    /\ UNCHANGED <<pvars, tvars, first_pull, ncalls, nmut, bvars, evars>>

\* The generator with a change of the caller's noted in it: dirty says that
\* the topology or an atom changed after the body of the call began to run.
Touched == [gen EXCEPT !.dirty = gen.dirty \/ gen.state \in {"suspended", "done", "error"}]

\* The caller grants a label to a prepared atom (atom.whitelist.add).
AddWhitelist ==
    /\ nmut < MaxMut
    /\ \E a \in Range(atoms) \cap prepared :
           /\ LabelL \notin whitelist[a]
           /\ whitelist' = [whitelist EXCEPT ![a] = whitelist[a] \cup {LabelL}]
    /\ gen' = Touched
    /\ nmut' = nmut + 1
    /\ UNCHANGED <<pvars, atoms, bonds, prepared, cycles, blacklist, yielded, first_pull,
                   ncalls, bvars, evars>>

AddBlacklist ==
    /\ nmut < MaxMut
    /\ \E a \in Range(atoms) \cap prepared :
           /\ LabelL \notin blacklist[a]
           /\ blacklist' = [blacklist EXCEPT ![a] = blacklist[a] \cup {LabelL}]
    /\ gen' = Touched
    /\ nmut' = nmut + 1
    /\ UNCHANGED <<pvars, atoms, bonds, prepared, cycles, whitelist, yielded, first_pull,
                   ncalls, bvars, evars>>

\* The topology gains or loses a bond.
ChangeBond ==
    /\ nmut < MaxMut
    /\ \E e \in {b \in AllBonds : b \subseteq Range(atoms)} :
           bonds' = IF e \in bonds THEN bonds \ {e} ELSE bonds \cup {e}
    /\ gen' = Touched
    /\ nmut' = nmut + 1
    /\ UNCHANGED <<pvars, atoms, prepared, cycles, whitelist, blacklist, yielded, first_pull,
                   ncalls, bvars, evars>>

\* The topology gains an atom, which atoms() gives first or last.
AddAtom ==
    /\ nmut < MaxMut
    /\ Len(atoms) < MaxAtoms
    /\ \E front \in BOOLEAN :
           atoms' = IF front THEN <<Len(atoms)>> \o atoms ELSE Append(atoms, Len(atoms))
    /\ gen' = Touched
    /\ nmut' = nmut + 1
    /\ UNCHANGED <<pvars, bonds, prepared, cycles, whitelist, blacklist, yielded, first_pull,
                   ncalls, bvars, evars>>

Next ==
    \/ Call \/ PullNone \/ PullEmpty \/ PullFirst \/ PullNext
    \/ AddWhitelist \/ AddBlacklist \/ ChangeBond \/ AddAtom

Spec == Init /\ [][Next]_vars

\* ---------------------------------------------------------------------------
\* Claims about the pattern graph builder.
\* ---------------------------------------------------------------------------
AtomNodes(a) == {n \in 1..Len(a) : a[n].head = "atom"}

BranchNodes(a) == {n \in 1..Len(a) : a[n].head = "branch"}

\* The occurrences of digit d among the atom labels, and the atoms carrying it.
OccurrencesOf(a, d) ==
    {<<n, j>> \in AtomNodes(a) \X (1..2) : j <= Len(a[n].label) /\ a[n].label[j] = d}

AtomsWith(a, d) == {o[1] : o \in OccurrencesOf(a, d)}

UsedDigits(a) == {d \in Digits : OccurrencesOf(a, d) # {}}

OnTwoDistinctAtoms(a, d) ==
    Cardinality(OccurrencesOf(a, d)) = 2 /\ Cardinality(AtomsWith(a, d)) = 2

\* C5: _add_label_edges succeeds if and only if every ring-closure digit
\* occurs on exactly two distinct atoms; on success the ring-closure edges are
\* one edge per digit joining its two atoms, never a self-loop.
C5_RingClosureIffTwoDistinctAtoms ==
    built.status \in {"ok", "ValueError"} =>
        /\ (built.status = "ok") <=> (\A d \in UsedDigits(ast) : OnTwoDistinctAtoms(ast, d))
        /\ built.status = "ok" =>
               /\ built.edges = built.chain \cup {AtomsWith(ast, d) : d \in UsedDigits(ast)}
               /\ \A e \in built.edges : Cardinality(e) = 2

RECURSIVE TrunkOf(_, _)
\* The trunk of branch b, read off the tree: the nearest atom among the
\* siblings before b, else the trunk of the enclosing branch, else none (0).
TrunkOf(a, b) ==
    LET before == {k \in AtomNodes(a) : a[k].parent = a[b].parent /\ k < b} IN
    IF before # {} THEN CHOOSE k \in before : \A j \in before : j <= k
    ELSE IF a[b].parent = 0 THEN 0 ELSE TrunkOf(a, a[b].parent)

\* The first child of branch b, when it is an atom.
FirstAtomOf(a, b) == {k \in AtomNodes(a) : a[k].parent = b /\ k = Min({j \in 1..Len(a) : a[j].parent = b})}

NextSibling(a, n) ==
    LET after == {k \in 1..Len(a) : a[k].parent = a[n].parent /\ k > n} IN
    IF after = {} THEN 0 ELSE Min(after)

ChainEdges(a) ==
    {Edge(n, NextSibling(a, n)) : n \in {m \in AtomNodes(a) : NextSibling(a, m) \in AtomNodes(a)}}

BranchEdges(a) ==
    {Edge(k, TrunkOf(a, a[k].parent)) : k \in UNION {FirstAtomOf(a, b) : b \in BranchNodes(a)}}

NoTrunk(a) == \E b \in BranchNodes(a) : FirstAtomOf(a, b) # {} /\ TrunkOf(a, b) = 0

\* C10: the graph has one node per atom AST node; the chain and branch edges
\* are an edge from every atom to its next sibling when that is an atom and
\* an edge from the first atom of every branch to the trunk preceding that
\* branch; building fails exactly when a branch's first atom has no trunk; and
\* with no ring-closure labels these are the only edges.
C10_ChainAndBranchEdges ==
    built.status # "unbuilt" =>
        /\ Len(built.nodes) = Cardinality(AtomNodes(ast))
        /\ Range(built.nodes) = AtomNodes(ast)
        /\ (built.status = "FoyerError") <=> NoTrunk(ast)
        /\ built.status # "FoyerError" => built.chain = ChainEdges(ast) \cup BranchEdges(ast)
        /\ (built.status = "ok" /\ UsedDigits(ast) = {}) =>
               built.edges = ChainEdges(ast) \cup BranchEdges(ast)

\* A built pattern with a branch nested inside a branch, each attached to its
\* own preceding atom, and no ring-closure label.
C10_Witness ==
    /\ built.status = "ok"
    /\ UsedDigits(ast) = {}
    /\ \E b \in BranchNodes(ast), c \in BranchNodes(ast) :
           /\ ast[c].parent = b
           /\ FirstAtomOf(ast, b) # {} /\ FirstAtomOf(ast, c) # {}
           /\ TrunkOf(ast, c) # TrunkOf(ast, b)
           /\ ast[TrunkOf(ast, c)].parent = b

\* ---------------------------------------------------------------------------
\* Claims about the atom constraint evaluator.
\* ---------------------------------------------------------------------------
Evaluated == result # "unevaluated"

\* The value of the leaf predicate under an atom_id or bare atom_symbol node.
LeafResult(e, atom) ==
    IF e.head = "atom_id" THEN atom_id_matches(e.tail[1], atom) ELSE atom_id_matches(e, atom)

RECURSIVE LeavesBoolean(_, _)
\* Every leaf of e is of a supported kind and yields a boolean for the atom.
LeavesBoolean(e, atom) ==
    IF e.head = "not_expression" THEN LeavesBoolean(e.tail[1], atom)
    ELSE IF e.head \in BinaryHeads
         THEN LeavesBoolean(e.tail[1], atom) /\ LeavesBoolean(e.tail[2], atom)
    ELSE /\ e.head \in {"atom_id", "atom_symbol"}
         /\ LeafResult(e, atom) \in {"True", "False"}

RECURSIVE Algebra(_, _)
\* NOT, AND and OR applied to the leaf results.
Algebra(e, atom) ==
    IF e.head = "not_expression" THEN ~Algebra(e.tail[1], atom)
    ELSE IF e.head \in {"and_expression", "weak_and_expression"}
         THEN Algebra(e.tail[1], atom) /\ Algebra(e.tail[2], atom)
    ELSE IF e.head = "or_expression"
         THEN Algebra(e.tail[1], atom) \/ Algebra(e.tail[2], atom)
    ELSE LeafResult(e, atom) = "True"

\* C6: for an expression tree over supported leaves, _atom_expr_matches
\* returns exactly the boolean that NOT/AND/OR give on the leaf results.
C6_ExactBooleanAlgebra ==
    (Evaluated /\ LeavesBoolean(expr, eatom)) => result = PyBool(Algebra(expr, eatom))

\* An evaluated two-level tree: the negation of a weak conjunction that is
\* false because only one of its leaves holds.
C6_Witness ==
    /\ Evaluated
    /\ LeavesBoolean(expr, eatom)
    /\ expr.head = "not_expression"
    /\ expr.tail[1].head = "weak_and_expression"
    /\ LeafResult(expr.tail[1].tail[1], eatom) = "True"
    /\ LeafResult(expr.tail[1].tail[2], eatom) = "False"
    /\ result = "True"

RECURSIVE HasFatal(_)
\* Some sub-expression of e is a fatal leaf.
HasFatal(e) ==
    IF e.head = "not_expression" THEN HasFatal(e.tail[1])
    ELSE IF e.head \in BinaryHeads THEN HasFatal(e.tail[1]) \/ HasFatal(e.tail[2])
    ELSE e \in FatalLeaves

\* C8: an expression holding a matches_string leaf, an unrecognized element
\* symbol or a node of an unexpected kind fails with an error for every
\* atom, whatever its other sub-expressions evaluate to.
C8_FatalAlwaysRaises ==
    (Evaluated /\ HasFatal(expr)) => result \in Errors

\* ---------------------------------------------------------------------------
\* Claims about find_matches and _prepare_atoms.
\* ---------------------------------------------------------------------------
\* The first atom node of the pattern's AST in document order.
FirstAtomNode(name) == Min(AtomNodes(Parse(name).ast))

\* What the search reads in the current state.
CurrentEnv == Env(gen, smarts, ids, bonds, DerivedOf(Topology))

Holds(env, a, p) == Truthy(atom_expr_matches(PatternTable[env.pat].expr[p], AtomView(env, a)))

\* The embeddings of the pattern into g, stated without the search: one-to-one
\* maps of the pattern's nodes to g's nodes under which two nodes are adjacent
\* exactly when their images are, and every node's constraint accepts its image.
Embeddings(env) ==
    {f \in [PatNodes(env.pat) -> env.gnodes] :
        /\ \A p, q \in PatNodes(env.pat) : p # q => f[p] # f[q]
        /\ \A p, q \in PatNodes(env.pat) :
               (Edge(p, q) \in PatEdges(env.pat)) <=> (Edge(f[p], f[q]) \in env.gedges)
        /\ \A p \in PatNodes(env.pat) : Holds(env, f[p], p)}

\* C1: within one find_matches call no atom index is yielded more than once.
C1_NoIndexTwice ==
    \A i, j \in 1..Len(yielded) : i # j => yielded[i] # yielded[j]

\* A finished call in which more embeddings were enumerated than indices
\* yielded: two embeddings mapped the root to the same atom.
C1_Witness ==
    /\ gen.state = "done"
    /\ yielded # << >>
    /\ Cardinality(gen.mappings) > Len(yielded)

\* C2: the root is the first atom node; the index just yielded is the image
\* of the root under the embedding just found, the yielded indices are the
\* root images of the embeddings enumerated, and when nothing changed while
\* the sequence was drained they are the root images of all embeddings.
C2_RootImages ==
    /\ first_atom(smarts) = FirstAtomNode(smarts)
    /\ gen.state = "suspended" =>
           yielded[Len(yielded)] = MapsTo(gen.core, FirstAtomNode(smarts))
    /\ Range(yielded) = {m[FirstAtomNode(smarts)] : m \in gen.mappings}
    /\ (gen.state = "done" /\ gen.top = "topology" /\ ~gen.dirty) =>
           Range(yielded) = {f[FirstAtomNode(smarts)] : f \in Embeddings(CurrentEnv)}

\* The two-atom chain [#6][#8] drained on a bonded carbon-oxygen pair: the
\* carbon's index only.
C2_Witness ==
    /\ smarts = "[#6][#8]"
    /\ gen.state = "done" /\ gen.top = "topology" /\ ~gen.dirty
    /\ atoms = <<0, 1>>
    /\ bonds = {{0, 1}}
    /\ yielded = <<0>>

\* C3: once an atom of the topology carries derived state, no step resets it:
\* the cycle sets stay those of the first preparation and nothing is removed
\* from a whitelist or a blacklist.
C3_PreparedOnce ==
    [][(Range(atoms) \cap prepared # {}) =>
          \A a \in prepared : /\ cycles'[a] = cycles[a]
                              /\ whitelist[a] \subseteq whitelist'[a]
                              /\ blacklist[a] \subseteq blacklist'[a]]_vars

\* C4 as claimed: every atom carries the derived state as soon as a call on a
\* topology has been made, pulled from or not.
C4_PreparedOnCall ==
    (gen.state # "none" /\ gen.top = "topology") => Range(atoms) \subseteq prepared

\* C4 as amended: no atom carries derived state before the first pull from a
\* sequence on a topology; from that pull on, every atom the topology held at
\* that pull carries it, for good.
C4_PreparedOnFirstPull ==
    /\ first_pull = {} => prepared = {}
    /\ first_pull \subseteq prepared

\* A second call made, and not yet pulled from, on a topology that the first
\* call's first pull prepared and that the caller has written to since.
C4_Witness ==
    /\ ncalls = 2
    /\ gen.state = "created" /\ gen.top = "topology"
    /\ Cardinality(first_pull) >= 2
    /\ \E a \in first_pull : whitelist[a] # {}

\* C7: under every embedding find_matches uses, two pattern nodes are
\* adjacent exactly when the atoms they are mapped to are bonded in g.
C7_EdgesPreserved ==
    \A m \in gen.mappings : \A p, q \in PatNodes(smarts) :
        p # q => /\ m[p] # m[q]
                 /\ (Edge(p, q) \in PatEdges(smarts)) <=> (Edge(m[p], m[q]) \in gen.gedges)

\* The ring-closure pattern matched: its closing edge lies on a bond of g.
C7_Witness ==
    /\ smarts = "[#6]1[*][*]1"
    /\ Edge(1, 3) \in PatEdges(smarts)
    /\ gen.state = "suspended"
    /\ Edge(MapsTo(gen.core, 1), MapsTo(gen.core, 3)) \in gen.gedges

\* The length of the longest common prefix of two search positions.
RECURSIVE CommonPrefix(_, _)
CommonPrefix(c, d) ==
    IF c = << >> \/ d = << >> \/ Head(c) # Head(d) THEN 0
    ELSE 1 + CommonPrefix(Tail(c), Tail(d))

\* C9: a pull evaluates against the atoms as they are at that pull.  Every
\* pair a pull adds to the mapping it yields satisfies the node's constraint
\* on the whitelist as it is now; and for a one-node pattern the pull yields
\* the next atom of g that satisfies the constraint now, and ends the
\* sequence only when no such atom is left.
C9_LiveWhitelist ==
    [][(gen.state = "suspended" /\ ncalls' = ncalls /\ nmut' = nmut) =>
          LET later == {b \in gen.gnodes : b > gen.core[Len(gen.core)].a
                                              /\ Holds(CurrentEnv, b, first_atom(smarts))}
          IN /\ gen'.state = "suspended" =>
                    \A k \in 1..Len(gen'.core) :
                        k > CommonPrefix(gen.core, gen'.core) =>
                            Holds(CurrentEnv, gen'.core[k].a, gen'.core[k].p)
             /\ (Cardinality(PatNodes(smarts)) = 1 /\ gen'.state = "suspended") =>
                    later # {} /\ yielded' = Append(yielded, Min(later))
             /\ (Cardinality(PatNodes(smarts)) = 1 /\ gen'.state = "done") => later = {}]_vars

\* A drained call, interleaved with whitelist changes only, whose yielded set
\* is not the set of root images on the whitelists as the call found them.
C9_Witness ==
    /\ gen.state = "done" /\ gen.top = "topology" /\ gen.dirty
    /\ bonds = gen.gedges /\ Range(atoms) = gen.gnodes
    /\ Range(yielded) # {f[FirstAtomNode(smarts)] :
                            f \in Embeddings([CurrentEnv EXCEPT !.whitelist = gen.whitelist0])}

====
